---- MODULE Spec2Model ----
(***************************************************************************)
(* A model of w3c-validate-css (src/index.js): the engine provisioner      *)
(* (hasJava, isJar, download, resolveJarPath), the output normalizer       *)
(* (safeParseFirstJson, parseIssues, parseIssuesFromJson) and the result   *)
(* aggregator (validateFileRaw, validate).                                 *)
(*                                                                         *)
(* Representation of JavaScript values:                                    *)
(*   - a string is a sequence of tokens (TLA+ strings); which tokens a     *)
(*     kind of string is made of is said where the kind is introduced;     *)
(*   - a raw JSON scalar is a record [k, s]: k says whether the field is   *)
(*     absent, a number or a string, s is its text;                        *)
(*   - a file on disk is a record [exists, bytes].                         *)
(***************************************************************************)
EXTENDS Integers, Sequences, FiniteSets, TLC

(* ------------------------------ bounds --------------------------------- *)

\* most diagnostics (errors plus warnings) in one engine document
MaxItems == 3
\* most css files under one target directory
MaxFiles == 2
\* validate calls made one after the other in one process
MaxCalls == 2
\* most data chunks the engine child writes to one of its channels
MaxChunks == 2
\* most tokens of text the engine prints on one channel
MaxText == 3

(* --------------------------- generic helpers --------------------------- *)

RECURSIVE SeqsUpTo(_, _)
SeqsUpTo(S, n) ==
    IF n = 0 THEN {<<>>}
    ELSE LET shorter == SeqsUpTo(S, n - 1)
         IN  shorter \cup {Append(s, x) : s \in {t \in shorter : Len(t) = n - 1}, x \in S}

\* String.prototype.toLowerCase on the tokens the model uses
ToLowerCase(t) ==
    CASE t = "ZOOM"       -> "zoom"
      [] t = "Zoom"       -> "zoom"
      [] t = "Property"   -> "property"
      [] t = "PROPERTY"   -> "property"
      [] t = "Doesn't"    -> "doesn't"
      [] t = "Exist"      -> "exist"
      [] t = "Parse"      -> "parse"
      [] t = "Error"      -> "error"
      [] t = "FILE:"      -> "file:"
      [] t = ".CSS"       -> ".css"
      [] t = "DEPRECATED" -> "deprecated"
      [] t = "Deprecated" -> "deprecated"
      [] OTHER            -> t

(* ------------------------- raw JSON scalars ---------------------------- *)

Absent == [k |-> "absent", s |-> <<>>]
Num(s) == [k |-> "num", s |-> s]
Str(s) == [k |-> "str", s |-> s]

DigitChars == {"0", "1", "2", "3", "4", "5", "6", "7", "8", "9"}

DigitVal(c) ==
    CASE c = "0" -> 0 [] c = "1" -> 1 [] c = "2" -> 2 [] c = "3" -> 3
      [] c = "4" -> 4 [] c = "5" -> 5 [] c = "6" -> 6 [] c = "7" -> 7
      [] c = "8" -> 8 [] c = "9" -> 9

RECURSIVE SkipSpaces(_)
SkipSpaces(s) ==
    IF s # <<>> /\ s[1] = " " THEN SkipSpaces(Tail(s)) ELSE s

RECURSIVE DigitPrefix(_)
DigitPrefix(s) ==
    IF s # <<>> /\ s[1] \in DigitChars THEN <<s[1]>> \o DigitPrefix(Tail(s)) ELSE <<>>

RECURSIVE DigitsValue(_)
DigitsValue(ds) ==
    IF ds = <<>> THEN 0
    ELSE 10 * DigitsValue(SubSeq(ds, 1, Len(ds) - 1)) + DigitVal(ds[Len(ds)])

\* String(v): the text parseInt sees; undefined prints as a word
ToText(v) == IF v.k = "absent" THEN <<"u", "n", "d">> ELSE v.s

\* parseInt(v, 10): leading blanks, an optional sign, the longest run of
\* digits; NaN when there is no digit
ParseInt10(v) ==
    LET t    == SkipSpaces(ToText(v))
        neg  == t # <<>> /\ t[1] = "-"
        body == IF t # <<>> /\ t[1] \in {"-", "+"} THEN Tail(t) ELSE t
        ds   == DigitPrefix(body)
    IN  IF ds = <<>> THEN [nan |-> TRUE, v |-> 0]
        ELSE [nan |-> FALSE, v |-> IF neg THEN 0 - DigitsValue(ds) ELSE DigitsValue(ds)]

\* JavaScript truthiness of a raw scalar
Truthy(v) ==
    CASE v.k = "absent" -> FALSE
      [] v.k = "str"    -> v.s # <<>>
      [] v.k = "num"    -> ~ParseInt10(v).nan /\ ParseInt10(v).v # 0

\* parseInt(x, 10) || 0
IntOrZero(v) ==
    LET p == ParseInt10(v) IN IF p.nan \/ p.v = 0 THEN 0 ELSE p.v

\* a || b on raw scalars
OrElse(a, b) == IF Truthy(a) THEN a ELSE b

(* ------------------------------ paths ---------------------------------- *)
(* A path or uri is a sequence of the tokens "file:", "FILE:", "//", "/",  *)
(* a name ("a", "b", ...), " ", "#" and the three characters "%20"; in a   *)
(* uri "%20", "%23" and "%2520" are the escapes of " ", "#" and "%20".     *)

\* decodeURI: unescapes everything but the reserved characters (# stays)
DecodeURI(s) ==
    [k \in 1..Len(s) |-> CASE s[k] = "%20" -> " " [] s[k] = "%2520" -> "%20" [] OTHER -> s[k]]

\* the percent-decoding url.fileURLToPath applies to the path of a file url
DecodeAll(s) ==
    [k \in 1..Len(s) |-> CASE s[k] = "%20" -> " " [] s[k] = "%23" -> "#"
                            [] s[k] = "%2520" -> "%20" [] OTHER -> s[k]]

\* path.resolve: repeated separators collapse; a relative path is put
\* under the working directory
PathResolve(s) ==
    LET t == [k \in 1..Len(s) |-> IF s[k] = "//" THEN "/" ELSE s[k]]
    IN  IF t # <<>> /\ t[1] = "/" THEN t ELSE <<"/", "cwd", "/">> \o t

normalizeJarPath(raw) ==
    LET s == IF raw # <<>> /\ ToLowerCase(raw[1]) = "file:" THEN Tail(raw) ELSE raw
    IN  IF s # <<>> /\ s[1] = "//" /\ Len(s) >= 2 /\ s[2] = "/"
        THEN PathResolve(DecodeAll(Tail(s)))      \* file:///path, empty host
        ELSE PathResolve(DecodeURI(s))            \* fileURLToPath threw or was not tried

(* ----------------------------- messages -------------------------------- *)
(* A message is a sequence of word tokens separated by single blanks; the  *)
(* token " " is further white space and ":" a colon.                       *)

RECURSIVE TrimLeft(_)
TrimLeft(m) == IF m # <<>> /\ m[1] = " " THEN TrimLeft(Tail(m)) ELSE m

RECURSIVE TrimRight(_)
TrimRight(m) ==
    IF m # <<>> /\ m[Len(m)] = " " THEN TrimRight(SubSeq(m, 1, Len(m) - 1)) ELSE m

Trim(m) == TrimRight(TrimLeft(m))

cleanMessage(s) ==
    LET msg == Trim(s)
    IN  IF msg # <<>> /\ msg[Len(msg)] = ":"
        THEN Trim(SubSeq(msg, 1, Len(msg) - 1))
        ELSE msg

\* the tokens ["']?([a-z0-9-]+)["']? matches as a whole, and what it captures
QuotedName(t) == IF t = "'zoom'" THEN "zoom" ELSE t
IsNameToken(t) == t \notin {" ", ":", "doesn't", "Doesn't", "#"}

NoProp == ""

\* /Property\s+["']?([a-z0-9-]+)["']?\s+doesn'?t\s+exist/i, first match,
\* capture lower-cased; NoProp stands for null
extractPropFromDoesNotExist(msg) ==
    LET w    == SelectSeq(msg, LAMBDA t : t # " ")
        hits == {k \in 1..(Len(w) - 3) :
                    /\ ToLowerCase(w[k]) = "property"
                    /\ IsNameToken(w[k + 1])
                    /\ ToLowerCase(w[k + 2]) \in {"doesn't", "doesnt"}
                    /\ ToLowerCase(w[k + 3]) = "exist"}
    IN  IF hits = {} THEN NoProp
        ELSE LET k == CHOOSE h \in hits : \A g \in hits : h <= g
             IN  ToLowerCase(QuotedName(w[k + 1]))

\* Array.prototype.indexOf(x) !== -1
IndexOfFound(arr, x) == \E k \in 1..Len(arr) : arr[k] = x

\* toList (cli only): a string is split and every entry lower-cased, an
\* array is returned as it is
toList(v) ==
    IF v.isArray THEN v.items
    ELSE [k \in 1..Len(v.items) |-> ToLowerCase(v.items[k])]

(* ------------------------- output normalizer --------------------------- *)
(* An engine document (the decoded JSON object) is a record                *)
(* [errors, warnings] of sequences of items; an item is a record           *)
(* [message, line, col, column, source, type, category] where source is a  *)
(* path or uri (<<>> when the field is missing) and type and category are  *)
(* tokens ("" when missing).  Of the alternate keys the code accepts       *)
(* (message/error/msg, source/uri, errors/error, the wrapper objects) the  *)
(* model keeps the first of each.                                          *)

EmptyDoc == [errors |-> <<>>, warnings |-> <<>>]

\* { line: line, col: col, msg: msg } as built at lines 327-329 and 348-350
Diagnostic(it) ==
    [line |-> IntOrZero(it.line),
     col  |-> IntOrZero(OrElse(it.col, it.column)),
     msg  |-> cleanMessage(it.message)]

\* src = normalizeJarPath(it.source || it.uri || fileAbs)
SourceOf(it, fileAbs) ==
    normalizeJarPath(IF it.source # <<>> THEN it.source ELSE fileAbs)

\* prop && tolerate.indexOf(prop) !== -1
IsTolerated(prop, tolerate) ==
    prop # NoProp /\ IndexOfFound(tolerate, prop)

\* type = String(it.type || it.category || '').toLowerCase()
TypeOf(it) ==
    ToLowerCase(IF it.type # "" THEN it.type ELSE it.category)

\* SkipDeprecated comparing the tag as the engine wrote it
SkipDeprecatedNoLower(it, includeDeprecations) ==
    ~includeDeprecations /\ (IF it.type # "" THEN it.type ELSE it.category) = "deprecated"

\* !includeDeprecations && type === 'deprecated'
SkipDeprecated(it, includeDeprecations) ==
    ~includeDeprecations /\ TypeOf(it) = "deprecated"

\* the loop over jErrors, from index i on
RECURSIVE ErrorLoop(_, _, _, _, _, _)
ErrorLoop(jErrors, i, fileAbs, includeWarnings, tolerate, acc) ==
    IF i > Len(jErrors) THEN acc
    ELSE LET it   == jErrors[i]
             d    == Diagnostic(it)
             prop == extractPropFromDoesNotExist(d.msg)
             next ==
                 IF SourceOf(it, fileAbs) = fileAbs
                 THEN IF IsTolerated(prop, tolerate)
                      THEN IF includeWarnings
                           THEN [acc EXCEPT !.warnings = Append(@, d)]
                           ELSE acc
                      ELSE [acc EXCEPT !.errors = Append(@, d)]
                 ELSE acc
         IN  ErrorLoop(jErrors, i + 1, fileAbs, includeWarnings, tolerate, next)

\* the loop over jWarnings, from index i on
RECURSIVE WarningLoop(_, _, _, _, _)
WarningLoop(jWarnings, i, fileAbs, includeDeprecations, acc) ==
    IF i > Len(jWarnings) THEN acc
    ELSE LET it   == jWarnings[i]
             d    == Diagnostic(it)
             next ==
                 IF SkipDeprecated(it, includeDeprecations) THEN acc
                 ELSE IF SourceOf(it, fileAbs) = fileAbs
                      THEN [acc EXCEPT !.warnings = Append(@, d)]
                      ELSE acc
         IN  WarningLoop(jWarnings, i + 1, fileAbs, includeDeprecations, next)

\* parseIssuesFromJson running the loop over jWarnings before that over jErrors
parseIssuesFromJsonWarningsFirst(json, file, includeWarnings, includeDeprecations, c) ==
    LET fileAbs   == PathResolve(file)
        tolerate  == c.tolerate
        none      == [errors |-> <<>>, warnings |-> <<>>]
        afterWarn == IF includeWarnings
                     THEN WarningLoop(json.warnings, 1, fileAbs, includeDeprecations, none)
                     ELSE none
    IN  ErrorLoop(json.errors, 1, fileAbs, includeWarnings, tolerate, afterWarn)

parseIssuesFromJson(json, file, includeWarnings, includeDeprecations, c) ==
    LET fileAbs  == PathResolve(file)
        tolerate == c.tolerate
        afterErr == ErrorLoop(json.errors, 1, fileAbs, includeWarnings, tolerate,
                              [errors |-> <<>>, warnings |-> <<>>])
    IN  IF includeWarnings
        THEN WarningLoop(json.warnings, 1, fileAbs, includeDeprecations, afterErr)
        ELSE afterErr

(* Process output is a sequence of the tokens "{", "}", "B" (the text of    *)
(* the body of the one document the engine printed, which the proc record   *)
(* carries decoded in its field doc) and "n" (any other text).              *)

NoJson == [ok |-> FALSE, json |-> EmptyDoc]

\* JSON.parse of the text between the first { and the last }
safeParseFirstJson(text, doc) ==
    LET opens  == {k \in 1..Len(text) : text[k] = "{"}
        closes == {k \in 1..Len(text) : text[k] = "}"}
    IN  IF opens = {} \/ closes = {} THEN NoJson
        ELSE LET first == CHOOSE k \in opens : \A g \in opens : k <= g
                 last  == CHOOSE k \in closes : \A g \in closes : k >= g
                 sub   == SubSeq(text, first, last)
             IN  IF last <= first THEN NoJson
                 ELSE IF sub = <<"{", "B", "}">> THEN [ok |-> TRUE, json |-> doc]
                 ELSE IF sub = <<"{", "}">> THEN [ok |-> TRUE, json |-> EmptyDoc]
                 ELSE NoJson

\* parseIssues trying stderr before stdout
parseIssuesStderrFirst(p, file, includeWarnings, includeDeprecations, c) ==
    LET a    == safeParseFirstJson(p.stdout, p.doc)
        b    == safeParseFirstJson(p.stderr, p.doc)
        ab   == safeParseFirstJson(p.stdout \o p.stderr, p.doc)
        json == IF b.ok THEN b ELSE IF a.ok THEN a ELSE ab
    IN  IF ~json.ok
        THEN [threw |-> TRUE, errors |-> <<>>, warnings |-> <<>>]
        ELSE LET r == parseIssuesFromJson(json.json, file, includeWarnings,
                                          includeDeprecations, c)
             IN  [threw |-> FALSE, errors |-> r.errors, warnings |-> r.warnings]

\* a thrown error is the result [threw |-> TRUE]
parseIssues(p, file, includeWarnings, includeDeprecations, c) ==
    LET a    == safeParseFirstJson(p.stdout, p.doc)
        b    == safeParseFirstJson(p.stderr, p.doc)
        ab   == safeParseFirstJson(p.stdout \o p.stderr, p.doc)
        json == IF a.ok THEN a ELSE IF b.ok THEN b ELSE ab
    IN  IF ~json.ok
        THEN [threw |-> TRUE, errors |-> <<>>, warnings |-> <<>>]
        ELSE LET r == parseIssuesFromJson(json.json, file, includeWarnings,
                                          includeDeprecations, c)
             IN  [threw |-> FALSE, errors |-> r.errors, warnings |-> r.warnings]

(* A config is a record [errorsOnly, warningLevel, showDeprecations,        *)
(* tolerate]; warningLevel is [has, v], has = FALSE when the key is missing *)

\* IncludeWarnings without the errorsOnly test
IncludeWarningsLevelOnly(c) ==
    c.warningLevel.has /\ c.warningLevel.v > 0

\* !cfg.errorsOnly && (cfg.warningLevel > 0)
IncludeWarnings(c) ==
    ~c.errorsOnly /\ (c.warningLevel.has /\ c.warningLevel.v > 0)

\* ComputeOk looking at the errors only
ComputeOkErrorsOnly(issues, includeWarnings) ==
    Len(issues.errors) = 0

\* issues.errors.length === 0 && (!includeWarnings || issues.warnings.length === 0)
ComputeOk(issues, includeWarnings) ==
    Len(issues.errors) = 0 /\ (~includeWarnings \/ Len(issues.warnings) = 0)

\* validateFileRaw after runOne has delivered p; a rejection is
\* [threw |-> TRUE]
validateFileRaw(file, c, p) ==
    LET includeWarnings == IncludeWarnings(c)
        issues == parseIssues(p, file, includeWarnings, c.showDeprecations, c)
    IN  [threw    |-> issues.threw,
         file     |-> file,
         ok       |-> ~issues.threw /\ ComputeOk(issues, includeWarnings),
         errors   |-> issues.errors,
         warnings |-> issues.warnings]

(* ------------------------------- state --------------------------------- *)

VARIABLES
    prov,               \* the overlapping validate calls of one process, each at its await point
    processEnv,         \* process.env of this process
    child,              \* the engine child of runOne: its events and the two buffers
    exitCode,           \* the status the command line passed to process.exit, or NoExit
    pc,                 \* where the running validate call (or the normalizer run) stands
    calls,              \* validate calls started so far in this process
    cfg,                \* the config of the running call
    target,             \* the target of the running call
    java,               \* the java -version child of hasJava: [spawned, sawOutput, code]
    CURRENT_JAR_PATH,   \* the module-level memo
    cacheFile,          \* the file at CACHED_JAR
    partFile,           \* the file at CACHED_JAR + '.part'
    net,                \* what each url of JAR_URLS answers in this environment
    jarI,               \* i of the loop of resolveJarPath (from 1)
    sent,               \* bytes of the response body piped to the part file so far
    files,              \* the list expandFiles returned
    fileI,              \* i of the loop of validate (from 1)
    file,               \* the file handed to validateFileRaw
    proc,               \* what runOne resolved with
    res,                \* what validateFileRaw returned
    results, passed, failed,
    err,                \* the message validate rejected with, "" if none
    hist                \* history: the file-system, network and process steps taken

vars == <<prov, processEnv, child, exitCode, pc, calls, cfg, target, java, CURRENT_JAR_PATH, cacheFile, partFile, net,
          jarI, sent, files, fileI, file, proc, res, results, passed, failed, err, hist>>

(* ------------------------- the normalizer alone ------------------------ *)
(* validateFileRaw applied to one engine output under one config.          *)

FileA == <<"/", "a">>
FileB == <<"/", "b">>

\* the item at position k of the errors array carries line 30 - k (so that
\* the lines fall along the array), the item at position k of the warnings
\* array line 10 + k
LineOfError(k)   == Num(<<"2", CHOOSE c \in DigitChars : DigitVal(c) = 10 - k>>)
LineOfWarning(k) == Num(<<"1", CHOOSE c \in DigitChars : DigitVal(c) = k>>)

Item(message, source, type, category) ==
    [message |-> message, line |-> Absent, col |-> Absent, column |-> Num(<<"7">>),
     source |-> source, type |-> type, category |-> category]

SelfUri  == <<"file:">> \o FileA
OtherUri == <<"file:">> \o FileB

ErrorItems ==
    { Item(<<"Property", "zoom", "doesn't", "exist">>, SelfUri, "", ""),
      Item(<<" ", "Property", "ZOOM", "doesnt", "exist", " ", ":">>, <<>>, "", ""),
      Item(<<"Property", "filter", "doesn't", "exist">>, SelfUri, "", ""),
      Item(<<"Parse", "Error">>, SelfUri, "", ""),
      Item(<<"Property", "'zoom'", "doesn't", "exist">>, OtherUri, "", "") }

WarningItems ==
    { Item(<<"vendor", "extension">>, SelfUri, "vendor-extension", ""),
      Item(<<"old", "value">>, SelfUri, "deprecated", ""),
      Item(<<"old", "value">>, <<>>, "DEPRECATED", ""),
      Item(<<"old", "value">>, SelfUri, "", "deprecated"),
      Item(<<"old", "value">>, OtherUri, "deprecated", ""),
      Item(<<"vendor", "extension">>, OtherUri, "vendor-extension", "") }

NumberedErrors(items) ==
    [k \in 1..Len(items) |-> [items[k] EXCEPT !.line = LineOfError(k)]]

NumberedWarnings(items) ==
    [k \in 1..Len(items) |-> [items[k] EXCEPT !.line = LineOfWarning(k)]]

\* the documents with at most n items
NormDocs(n) ==
    UNION { { [errors |-> NumberedErrors(e), warnings |-> NumberedWarnings(w)] :
                e \in {x \in SeqsUpTo(ErrorItems, n) : Len(x) = k},
                w \in SeqsUpTo(WarningItems, n - k) } : k \in 0..n }

NormProcs ==
    { [stdout |-> <<"n", "{", "B", "}">>, stderr |-> <<>>, code |-> 0, doc |-> d] :
        d \in NormDocs(MaxItems) }
    \cup
    { [stdout |-> <<"n">>, stderr |-> <<"{", "B", "}">>, code |-> 1, doc |-> d] :
        d \in NormDocs(1) }
    \cup
    { [stdout |-> <<>>, stderr |-> <<>>, code |-> 1, doc |-> EmptyDoc] }

\* what --tolerate (a string, or an array when the flag is repeated) or a
\* caller of the module (an array) may supply
TolerateInputs ==
    { [isArray |-> a, items |-> t] :
        a \in BOOLEAN, t \in {<<>>, <<"zoom">>, <<"ZOOM">>} }

WarningLevels ==
    {[has |-> FALSE, v |-> 0]} \cup {[has |-> TRUE, v |-> n] : n \in 0..2}

NormConfigs ==
    { [errorsOnly |-> e, warningLevel |-> l, showDeprecations |-> d, tolerate |-> toList(t)] :
        e \in BOOLEAN, l \in WarningLevels, d \in BOOLEAN, t \in TolerateInputs }

NoFile   == [exists |-> FALSE, bytes |-> <<>>]
NoPath   == ""
NoTarget == [kind |-> "none", path |-> <<>>, n |-> 0]
\* a variable of an environment: not set, or set to a string
Unset  == [set |-> FALSE, v |-> ""]
Val(s) == [set |-> TRUE, v |-> s]
NoEnv  == [k \in {} |-> Unset]
NoChild == [state |-> "none", errorSeen |-> FALSE, closeSeen |-> FALSE, out |-> <<>>,
            err |-> <<>>, env |-> NoEnv]
\* the validate calls that overlap in one process
Provs == {1, 2}
NoCall == [pc |-> "none", i |-> 0, sent |-> 0, fd |-> "none", ran |-> FALSE,
           ret |-> NoPath]
NoProv == [p \in Provs |-> NoCall]
NoExit == -1
NoJava   == [spawned |-> FALSE, sawOutput |-> FALSE, closed |-> FALSE, code |-> 0]
NoProc   == [stdout |-> <<>>, stderr |-> <<>>, code |-> 0, doc |-> EmptyDoc]
NoRes    == [threw |-> FALSE, file |-> <<>>, ok |-> FALSE, errors |-> <<>>, warnings |-> <<>>]
NoHist   == [cacheReads |-> 0, unlinks |-> 0, fetches |-> 0, renames |-> 0, spawns |-> 0,
             attempts |-> <<>>, startValid |-> FALSE, installed |-> FALSE, provSteps |-> 0]

InitNorm ==
    /\ pc = "norm"
    /\ file = FileA
    /\ cfg \in NormConfigs
    /\ proc \in NormProcs
    /\ res = NoRes
    /\ calls = 0 /\ target = NoTarget /\ java = NoJava
    /\ CURRENT_JAR_PATH = NoPath /\ cacheFile = NoFile /\ partFile = NoFile
    /\ net = <<>> /\ jarI = 0 /\ sent = 0
    /\ files = <<>> /\ fileI = 0
    /\ results = <<>> /\ passed = 0 /\ failed = 0
    /\ err = "" /\ hist = NoHist
    /\ child = NoChild /\ exitCode = NoExit
    /\ prov = NoProv /\ processEnv = NoEnv

NormValidateFileRaw ==
    /\ pc = "norm"
    /\ res' = validateFileRaw(file, cfg, proc)
    /\ pc' = "normDone"
    /\ UNCHANGED <<prov, processEnv, child, exitCode, calls, cfg, target, java, CURRENT_JAR_PATH, cacheFile, partFile, net,
                   jarI, sent, files, fileI, file, proc, results, passed, failed, err, hist>>

NextNorm == NormValidateFileRaw

SpecNorm == InitNorm /\ [][NextNorm]_vars

(* ------------------------ the validate run ------------------------------ *)

JAR_URLS   == <<"github.com/w3c/css-validator", "jigsaw.w3.org/css-validator">>
CACHED_JAR == "css-validator.jar"

\* isJar reading only the first byte
isJarFirstByteOnly(f) ==
    f.exists /\ Len(f.bytes) >= 1 /\ f.bytes[1] = 80

\* isJar: open, read two bytes into a zeroed buffer, compare with 'PK';
\* a file that cannot be opened gives false
isJar(f) ==
    f.exists /\ Len(f.bytes) >= 2 /\ f.bytes[1] = 80 /\ f.bytes[2] = 75

\* the cache test without the signature check
CacheHitExistsOnly(f) == f.exists

\* fs.existsSync(CACHED_JAR) && await isJar(CACHED_JAR)
CacheHit(f) == f.exists /\ isJar(f)

\* the memo test always true
NeedsResolveAlways(p) == TRUE

\* !CURRENT_JAR_PATH
NeedsResolve(p) == p = NoPath

\* the close handler of hasJava looking at the exit code only
HasJavaOnCloseCodeOnly(code, sawOutput) == code = 0

\* resolve(code === 0 || sawOutput) in the close handler of hasJava
HasJavaOnClose(code, sawOutput) == code = 0 \/ sawOutput

\* the counting of validate without failed++
TallyNoFailed(r, p, f) ==
    IF r.ok THEN [passed |-> p + 1, failed |-> f] ELSE [passed |-> p, failed |-> f]

\* if (res.ok) passed++ else failed++
Tally(r, p, f) ==
    IF r.ok THEN [passed |-> p + 1, failed |-> f] ELSE [passed |-> p, failed |-> f + 1]

\* fs.unlinkSync(CACHED_JAR) inside try/catch: the file is gone afterwards
UnlinkCounted(h, f) == IF f.exists THEN [h EXCEPT !.unlinks = @ + 1] ELSE h

\* what a url may answer: no connection, a non-2xx status, a body that
\* breaks off with an error, or a complete body
NetOutcomes ==
    { [kind |-> "neterr",    body |-> <<>>],
      [kind |-> "non2xx",    body |-> <<>>],
      [kind |-> "midstream", body |-> <<80, 75>>],
      [kind |-> "ok",        body |-> <<80, 75>>],
      [kind |-> "ok",        body |-> <<80, 60>>],
      [kind |-> "ok",        body |-> <<>>] }

\* what may lie at the cache path and at the part path when the process starts
InitialCacheFiles ==
    { NoFile,
      [exists |-> TRUE, bytes |-> <<80, 75>>],
      [exists |-> TRUE, bytes |-> <<80, 60>>] }

InitialPartFiles == { NoFile, [exists |-> TRUE, bytes |-> <<80>>] }

FileC == <<"/", "c">>
FileD == <<"/", "d">>
DirFiles == <<FileA, FileB, FileC, FileD>>

\* a missing path, a path stat fails on for another reason, one file (given
\* absolute or relative, its name ending in .css, .CSS or .txt), or a
\* directory with n css files under it
Targets ==
    { [kind |-> "enoent", path |-> <<"/", "x", ".css">>, n |-> 0],
      [kind |-> "staterr", path |-> <<"/", "x", ".css">>, n |-> 0],
      [kind |-> "file", path |-> <<"/", "a", ".css">>, n |-> 1],
      [kind |-> "file", path |-> <<"a", ".CSS">>, n |-> 1],
      [kind |-> "file", path |-> <<"/", "a", ".txt">>, n |-> 1] }
    \cup { [kind |-> "dir", path |-> <<"/", "d">>, n |-> n] : n \in 0..MaxFiles }

PathNotFound == "path not found"
NotACssFile  == "not a css file"
StatFailed   == "stat failed"

IsCssNameCaseSensitive(abs) == Len(abs) > 0 /\ abs[Len(abs)] = ".css"

\* /\.css$/i.test(abs)
IsCssName(abs) == Len(abs) > 0 /\ ToLowerCase(abs[Len(abs)]) = ".css"

\* the messages stand for 'path not found ' + target, e.message of the
\* failed stat, and 'not a css file ' + target
expandFiles(t) ==
    LET abs == PathResolve(t.path)
    IN  CASE t.kind = "enoent" -> [threw |-> TRUE, msg |-> PathNotFound, files |-> <<>>]
          [] t.kind = "staterr" -> [threw |-> TRUE, msg |-> StatFailed, files |-> <<>>]
          [] t.kind = "file" ->
                IF ~IsCssName(abs) THEN [threw |-> TRUE, msg |-> NotACssFile, files |-> <<>>]
                ELSE [threw |-> FALSE, msg |-> "", files |-> <<abs>>]
          [] OTHER -> [threw |-> FALSE, msg |-> "", files |-> SubSeq(DirFiles, 1, t.n)]

RunConfigs ==
    { [errorsOnly |-> FALSE, warningLevel |-> [has |-> TRUE, v |-> 2],
       showDeprecations |-> FALSE, tolerate |-> <<>>] }

\* what the engine may print for file f: a clean document, one error, one
\* warning on stderr, a document split over both channels, nothing at all
\* (also the triple of a spawn failure)
RunProcs(f) ==
    LET e == [Item(<<"Parse", "Error">>, <<"file:">> \o f, "", "") EXCEPT !.line = Num(<<"3">>)]
        w == [Item(<<"vendor", "extension">>, <<>>, "vendor-extension", "")
                  EXCEPT !.line = Num(<<"4">>)]
    IN  { [stdout |-> <<"{", "B", "}">>, stderr |-> <<>>, code |-> 0, doc |-> EmptyDoc],
          [stdout |-> <<"{", "B", "}">>, stderr |-> <<>>, code |-> 0,
           doc |-> [errors |-> <<e>>, warnings |-> <<>>]],
          [stdout |-> <<>>, stderr |-> <<"n", "{", "B", "}">>, code |-> 0,
           doc |-> [errors |-> <<>>, warnings |-> <<w>>]],
          [stdout |-> <<"{", "B">>, stderr |-> <<"}">>, code |-> 0,
           doc |-> [errors |-> <<e>>, warnings |-> <<w>>]],
          [stdout |-> <<>>, stderr |-> <<>>, code |-> 1, doc |-> EmptyDoc] }

JavaNotFound       == "java not found"
ProvisioningFailed == "failed to obtain css-validator.jar"
NoJsonOutput       == "validator did not produce JSON output"

Init ==
    /\ pc = "idle"
    /\ calls = 0
    /\ cfg \in RunConfigs
    /\ target = NoTarget /\ java = NoJava
    /\ CURRENT_JAR_PATH = NoPath
    /\ cacheFile \in InitialCacheFiles
    /\ partFile \in InitialPartFiles
    /\ net \in [1..Len(JAR_URLS) -> NetOutcomes]
    /\ jarI = 0 /\ sent = 0
    /\ files = <<>> /\ fileI = 0 /\ file = <<>>
    /\ proc = NoProc /\ res = NoRes
    /\ results = <<>> /\ passed = 0 /\ failed = 0
    /\ err = "" /\ hist = NoHist
    /\ child = NoChild /\ exitCode = NoExit
    /\ prov = NoProv /\ processEnv = NoEnv

\* a call of validate(target, cfg): up to the spawn of java -version
Validate(t, spawned) ==
    /\ pc \in {"idle", "done", "rejected"}
    /\ calls < MaxCalls
    /\ calls' = calls + 1
    /\ target' = t
    /\ java' = [spawned |-> spawned, sawOutput |-> FALSE, closed |-> FALSE, code |-> 0]
    /\ pc' = "hasJava"
    /\ jarI' = 0 /\ sent' = 0
    /\ files' = <<>> /\ fileI' = 0 /\ file' = <<>>
    /\ proc' = NoProc /\ res' = NoRes
    /\ results' = <<>> /\ passed' = 0 /\ failed' = 0
    /\ err' = ""
    /\ hist' = [NoHist EXCEPT !.provSteps = hist.provSteps]
    /\ UNCHANGED <<prov, processEnv, child, exitCode, cfg, CURRENT_JAR_PATH, cacheFile, partFile, net>>

\* p.stderr.on('data')
JavaStderrData ==
    /\ pc = "hasJava" /\ java.spawned /\ ~java.sawOutput
    /\ java' = [java EXCEPT !.sawOutput = TRUE]
    /\ UNCHANGED <<prov, processEnv, child, exitCode, pc, calls, cfg, target, CURRENT_JAR_PATH, cacheFile, partFile, net,
                   jarI, sent, files, fileI, file, proc, res, results, passed, failed,
                   err, hist>>

\* where validate goes once hasJava resolved with available
AfterHasJava(available) ==
    IF ~available
    THEN pc' = "rejected" /\ err' = JavaNotFound
    ELSE /\ err' = err
         /\ pc' = IF NeedsResolve(CURRENT_JAR_PATH) THEN "resolve" ELSE "expand"

\* p.on('error'): the spawn failed
JavaError ==
    /\ pc = "hasJava" /\ ~java.spawned
    /\ AfterHasJava(FALSE)
    /\ UNCHANGED <<prov, processEnv, child, exitCode, calls, cfg, target, java, CURRENT_JAR_PATH, cacheFile, partFile, net,
                   jarI, sent, files, fileI, file, proc, res, results, passed, failed, hist>>

\* p.on('close')
JavaClose(code) ==
    /\ pc = "hasJava" /\ java.spawned
    /\ java' = [java EXCEPT !.closed = TRUE, !.code = code]
    /\ AfterHasJava(HasJavaOnClose(code, java.sawOutput))
    /\ UNCHANGED <<prov, processEnv, child, exitCode, calls, cfg, target, CURRENT_JAR_PATH, cacheFile, partFile, net,
                   jarI, sent, files, fileI, file, proc, res, results, passed, failed, hist>>

\* resolveJarPath, the cache test
ResolveCheck ==
    /\ pc = "resolve"
    /\ hist' = [hist EXCEPT !.cacheReads = @ + 1, !.provSteps = @ + 1,
                            !.startValid = cacheFile.exists /\ Len(cacheFile.bytes) >= 2
                                           /\ SubSeq(cacheFile.bytes, 1, 2) = <<80, 75>>]
    /\ IF CacheHit(cacheFile)
       THEN CURRENT_JAR_PATH' = CACHED_JAR /\ pc' = "expand"
       ELSE CURRENT_JAR_PATH' = CURRENT_JAR_PATH /\ pc' = "clean"
    /\ UNCHANGED <<prov, processEnv, child, exitCode, calls, cfg, target, java, cacheFile, partFile, net, jarI, sent, files,
                   fileI, file, proc, res, results, passed, failed, err>>

\* resolveJarPath: ensureDir, unlink of the cached file, entry of the loop
ResolveClean ==
    /\ pc = "clean"
    /\ cacheFile' = NoFile
    /\ hist' = [UnlinkCounted(hist, cacheFile) EXCEPT !.provSteps = @ + 1]
    /\ jarI' = 1
    /\ pc' = "fetch"
    /\ UNCHANGED <<prov, processEnv, child, exitCode, calls, cfg, target, java, CURRENT_JAR_PATH, partFile, net, sent, files,
                   fileI, file, proc, res, results, passed, failed, err>>

\* download: fetch answers; a thrown error lands in the catch of the loop
Fetch ==
    /\ pc = "fetch" /\ jarI <= Len(JAR_URLS)
    /\ LET o == net[jarI]
           h == [hist EXCEPT !.fetches = @ + 1, !.provSteps = @ + 1,
                             !.attempts = Append(@, jarI)]
       IN  IF o.kind \in {"neterr", "non2xx"}
           THEN /\ cacheFile' = NoFile
                /\ hist' = UnlinkCounted(h, cacheFile)
                /\ jarI' = jarI + 1
                /\ UNCHANGED <<pc, partFile, sent>>
           ELSE /\ partFile' = [exists |-> TRUE, bytes |-> <<>>]
                /\ sent' = 0
                /\ pc' = "stream"
                /\ hist' = h
                /\ UNCHANGED <<cacheFile, jarI>>
    /\ UNCHANGED <<prov, processEnv, child, exitCode, calls, cfg, target, java, CURRENT_JAR_PATH, net, files, fileI, file,
                   proc, res, results, passed, failed, err>>

\* res.body.pipe(out): one more byte reaches the part file
StreamChunk ==
    /\ pc = "stream" /\ sent < Len(net[jarI].body)
    /\ partFile' = [partFile EXCEPT !.bytes = Append(@, net[jarI].body[sent + 1])]
    /\ sent' = sent + 1
    /\ UNCHANGED <<prov, processEnv, child, exitCode, pc, calls, cfg, target, java, CURRENT_JAR_PATH, cacheFile, net, jarI,
                   files, fileI, file, proc, res, results, passed, failed, err, hist>>

\* res.body.on('error', reject), then the catch of the loop
StreamError ==
    /\ pc = "stream" /\ net[jarI].kind = "midstream"
    /\ cacheFile' = NoFile
    /\ hist' = [UnlinkCounted(hist, cacheFile) EXCEPT !.provSteps = @ + 1]
    /\ jarI' = jarI + 1
    /\ pc' = "fetch"
    /\ UNCHANGED <<prov, processEnv, child, exitCode, calls, cfg, target, java, CURRENT_JAR_PATH, partFile, net, sent, files,
                   fileI, file, proc, res, results, passed, failed, err>>

\* out.on('finish', resolve), fs.renameSync(tmp, dest), isJar(CACHED_JAR)
StreamFinish ==
    /\ pc = "stream" /\ net[jarI].kind = "ok" /\ sent = Len(net[jarI].body)
    /\ cacheFile' = partFile
    /\ partFile' = NoFile
    /\ hist' = [hist EXCEPT !.renames = @ + 1, !.provSteps = @ + 1, !.installed = TRUE]
    /\ IF isJar(cacheFile')
       THEN CURRENT_JAR_PATH' = CACHED_JAR /\ pc' = "expand" /\ jarI' = jarI
       ELSE CURRENT_JAR_PATH' = CURRENT_JAR_PATH /\ pc' = "fetch" /\ jarI' = jarI + 1
    /\ UNCHANGED <<prov, processEnv, child, exitCode, calls, cfg, target, java, net, sent, files, fileI, file, proc, res,
                   results, passed, failed, err>>

\* the throw after the loop of resolveJarPath
ResolveFail ==
    /\ pc = "fetch" /\ jarI > Len(JAR_URLS)
    /\ pc' = "rejected"
    /\ err' = ProvisioningFailed
    /\ UNCHANGED <<prov, processEnv, child, exitCode, calls, cfg, target, java, CURRENT_JAR_PATH, cacheFile, partFile, net,
                   jarI, sent, files, fileI, file, proc, res, results, passed, failed, hist>>

\* files = await expandFiles(target), and the setup of the loop
ExpandFiles ==
    /\ pc = "expand"
    /\ LET r == expandFiles(target)
       IN  IF r.threw
           THEN pc' = "rejected" /\ err' = r.msg /\ UNCHANGED <<files, fileI>>
           ELSE pc' = "loop" /\ files' = r.files /\ fileI' = 1 /\ err' = err
    /\ UNCHANGED <<prov, processEnv, child, exitCode, calls, cfg, target, java, CURRENT_JAR_PATH, cacheFile, partFile, net,
                   jarI, sent, file, proc, res, results, passed, failed, hist>>

PushFront(arr, x) == <<x>> \o arr

\* arr.push(x)
Push(arr, x) == Append(arr, x)

\* LoopMayGoOn without the await: the loop goes on while an engine runs
LoopMayGoOnWhileRunning(p) == p \in {"loop", "running"}

\* for (...) { var res = await validateFileRaw(files[i], cfg); ... }: the
\* loop takes its next turn only when no validateFileRaw is pending
LoopMayGoOn(p) == p = "loop"

\* validateFileRaw(files[i], cfg) up to the spawn of the engine in runOne
RunOne ==
    /\ LoopMayGoOn(pc) /\ fileI <= Len(files)
    /\ file' = files[fileI]
    /\ hist' = [hist EXCEPT !.spawns = @ + 1]
    /\ pc' = "running"
    /\ UNCHANGED <<prov, processEnv, child, exitCode, calls, cfg, target, java, CURRENT_JAR_PATH, cacheFile, partFile, net,
                   jarI, sent, files, fileI, proc, res, results, passed, failed, err>>

\* runOne resolves with p; the rest of validateFileRaw and of the loop body
EngineClose(p) ==
    /\ pc = "running"
    /\ proc' = p
    /\ res' = validateFileRaw(file, cfg, p)
    /\ IF res'.threw
       THEN /\ pc' = "rejected" /\ err' = NoJsonOutput
            /\ UNCHANGED <<results, passed, failed, fileI>>
       ELSE /\ results' = Push(results, res')
            /\ passed' = Tally(res', passed, failed).passed
            /\ failed' = Tally(res', passed, failed).failed
            /\ fileI' = fileI + 1
            /\ pc' = "loop" /\ err' = err
    /\ UNCHANGED <<prov, processEnv, child, exitCode, calls, cfg, target, java, CURRENT_JAR_PATH, cacheFile, partFile, net,
                   jarI, sent, files, file, hist>>

\* return { passed, failed, results }
Return ==
    /\ pc = "loop" /\ fileI > Len(files)
    /\ pc' = "done"
    /\ UNCHANGED <<prov, processEnv, child, exitCode, calls, cfg, target, java, CURRENT_JAR_PATH, cacheFile, partFile, net,
                   jarI, sent, files, fileI, file, proc, res, results, passed, failed,
                   err, hist>>

Next ==
    \/ \E t \in Targets, spawned \in BOOLEAN : Validate(t, spawned)
    \/ JavaStderrData
    \/ JavaError
    \/ \E code \in {0, 1} : JavaClose(code)
    \/ ResolveCheck
    \/ ResolveClean
    \/ Fetch
    \/ StreamChunk
    \/ StreamError
    \/ StreamFinish
    \/ ResolveFail
    \/ ExpandFiles
    \/ RunOne
    \/ \E p \in RunProcs(file) : EngineClose(p)
    \/ Return

Spec == Init /\ [][Next]_vars

(* ------------------- properties of the normalizer ---------------------- *)

NormReturned == pc = "normDone" /\ ~res.threw

\* the raw item's normalized source is the file being validated
Attributed(it) == SourceOf(it, PathResolve(file)) = PathResolve(file)

\* the k-th raw error is reported as an error / as a warning
ErrorInErrors(k)   == \E n \in 1..Len(res.errors) : res.errors[n].line = 30 - k
ErrorInWarnings(k) == \E n \in 1..Len(res.warnings) : res.warnings[n].line = 30 - k
\* the k-th raw warning is reported as a warning
WarningInWarnings(k) == \E n \in 1..Len(res.warnings) : res.warnings[n].line = 10 + k

WarningsExcluded(c) ==
    c.errorsOnly \/ ~c.warningLevel.has \/ c.warningLevel.v = 0

\* C1: a FileResult has ok = TRUE exactly when its errors list is empty and
\* its warnings list is empty or warnings are excluded by the config
\* (errorsOnly set, warningLevel 0 or missing).
C1_OkIffNoReportedIssue ==
    NormReturned =>
        (res.ok <=> (res.errors = <<>> /\ (res.warnings = <<>> \/ WarningsExcluded(cfg))))

\* C1 witness: a result that fails through its warnings alone
C1_Witness ==
    NormReturned /\ ~res.ok /\ res.errors = <<>> /\ res.warnings # <<>>

\* C4 (as claimed): an attributed "Property <name> doesn't exist" error whose
\* name equals a tolerate entry up to letter case is never an error and is a
\* warning exactly when warnings are included; any other attributed one is an
\* error and not a warning.
C4_TolerateAnyCase ==
    NormReturned =>
        \A k \in 1..Len(proc.doc.errors) :
            LET it   == proc.doc.errors[k]
                name == extractPropFromDoesNotExist(cleanMessage(it.message))
            IN  (Attributed(it) /\ name # NoProp) =>
                    IF \E n \in 1..Len(cfg.tolerate) : ToLowerCase(cfg.tolerate[n]) = name
                    THEN ~ErrorInErrors(k) /\ (ErrorInWarnings(k) <=> ~WarningsExcluded(cfg))
                    ELSE ErrorInErrors(k) /\ ~ErrorInWarnings(k)

\* C5: with errorsOnly set or warningLevel 0 the warnings list is empty
\* whatever the engine printed, and a file without errors passes.
C5_ExcludedWarningsNeverReported ==
    (NormReturned /\ (cfg.errorsOnly \/ (cfg.warningLevel.has /\ cfg.warningLevel.v = 0))) =>
        /\ res.warnings = <<>>
        /\ (res.errors = <<>> => res.ok)

\* C5 witness: errorsOnly at level 2, the engine printed an attributed
\* warning and a tolerated error, and the file passes
C5_Witness ==
    /\ NormReturned /\ cfg.errorsOnly /\ cfg.warningLevel.v = 2 /\ res.ok
    /\ \E k \in 1..Len(proc.doc.warnings) :
           Attributed(proc.doc.warnings[k]) /\ proc.doc.warnings[k].type = "vendor-extension"
    /\ \E k \in 1..Len(proc.doc.errors) :
           /\ Attributed(proc.doc.errors[k])
           /\ IsTolerated(extractPropFromDoesNotExist(cleanMessage(proc.doc.errors[k].message)),
                          cfg.tolerate)

\* the item's type, or its category when it has no type, reads "deprecated"
\* in some letter case
DeprecationTagged(it) ==
    ToLowerCase(IF it.type # "" THEN it.type ELSE it.category) = "deprecated"

WarningsIncluded12 ==
    ~cfg.errorsOnly /\ cfg.warningLevel.has /\ cfg.warningLevel.v \in {1, 2}

\* C6 (as claimed): with warnings included, a deprecation-tagged engine
\* warning is reported exactly when showDeprecations is set.
C6_DeprecatedIffFlag ==
    (NormReturned /\ WarningsIncluded12) =>
        \A k \in 1..Len(proc.doc.warnings) :
            DeprecationTagged(proc.doc.warnings[k]) =>
                (WarningInWarnings(k) <=> cfg.showDeprecations)

\* C6 (amended): with warnings included, at level 1 and 2 alike, an engine
\* warning is reported exactly when its source is the current file and, if
\* it is deprecation-tagged, showDeprecations is set; a warning that is not
\* deprecation-tagged is reported or not whatever the flag.
C6_DeprecatedIffFlagAndAttributed ==
    (NormReturned /\ WarningsIncluded12) =>
        \A k \in 1..Len(proc.doc.warnings) :
            LET it == proc.doc.warnings[k]
            IN  WarningInWarnings(k) <=>
                    (Attributed(it) /\ (DeprecationTagged(it) => cfg.showDeprecations))

\* C6 witness: level 1, the flag set, an upper-case deprecation tag, reported
C6_Witness ==
    /\ NormReturned /\ WarningsIncluded12 /\ cfg.warningLevel.v = 1 /\ cfg.showDeprecations
    /\ \E k \in 1..Len(proc.doc.warnings) :
           /\ proc.doc.warnings[k].type = "DEPRECATED"
           /\ WarningInWarnings(k)

(* ------------------- properties of the validate run --------------------- *)

CountOk(rs, b) == Cardinality({k \in 1..Len(rs) : rs[k].ok = b})

\* C2: at every point of the loop of validate and in the summary returned,
\* passed + failed is the number of results, passed counts the results with
\* ok = TRUE and failed the others; the summary has one result per file.
C2_CountsAreDerived ==
    /\ passed + failed = Len(results)
    /\ passed = CountOk(results, TRUE)
    /\ failed = CountOk(results, FALSE)
    /\ pc = "done" => Len(results) = Len(files)

\* C2 witness: a summary over two files, one passing and one failing
C2_Witness ==
    pc = "done" /\ Len(files) = 2 /\ passed = 1 /\ failed = 1

\* C3 (as claimed): when the engine gives no decodable JSON for a file,
\* validate does not reject; the file gets a failed FileResult and the loop
\* goes on.
C3_NoJsonStaysLocal ==
    (pc # "running" /\ res.threw) =>
        /\ pc # "rejected"
        /\ err # NoJsonOutput
        /\ results # <<>>
        /\ results[Len(results)].file = res.file
        /\ ~results[Len(results)].ok

HasSignature(f) == f.exists /\ Len(f.bytes) >= 2 /\ f.bytes[1] = 80 /\ f.bytes[2] = 75

NoProvisioningStep ==
    /\ hist.cacheReads = 0 /\ hist.unlinks = 0
    /\ hist.fetches = 0 /\ hist.renames = 0

\* C7: a resolveJarPath that finds a cached file with the signature returns
\* the cache path with no fetch, no unlink and no rename and leaves the file
\* as it was; and once CURRENT_JAR_PATH is set no step of any later call
\* reads, fetches, unlinks or renames.
C7_CacheHitTouchesNothing ==
    /\ [](hist.startValid =>
            /\ hist.fetches = 0 /\ hist.unlinks = 0 /\ hist.renames = 0
            /\ hist.attempts = <<>>
            /\ CURRENT_JAR_PATH = CACHED_JAR
            /\ HasSignature(cacheFile))
    /\ [][CURRENT_JAR_PATH # NoPath =>
            /\ hist'.provSteps = hist.provSteps
            /\ cacheFile' = cacheFile
            /\ partFile' = partFile]_vars

\* C7 witness: two calls returned, the first hit the cache, and the cache
\* test of the first call is the only provisioning step of the process
C7_Witness ==
    /\ calls = 2 /\ pc = "done"
    /\ CURRENT_JAR_PATH = CACHED_JAR
    /\ hist.provSteps = 1
    /\ partFile.exists

\* the resolveJarPath of the running call has run and is over
ResolveOver ==
    hist.cacheReads = 1 /\ pc \notin {"resolve", "clean", "fetch", "stream"}

\* source j failed in one of the ways C8 lists
SourceFailed(j) ==
    \/ net[j].kind \in {"neterr", "non2xx", "midstream"}
    \/ net[j].kind = "ok" /\ ~HasSignature([exists |-> TRUE, bytes |-> net[j].body])

SourceDelivers(j) ==
    net[j].kind = "ok" /\ HasSignature([exists |-> TRUE, bytes |-> net[j].body])

\* C8: when the cached file is missing or fails the check, resolveJarPath
\* never returns it: the file is unlinked before the first attempt, a path is
\* returned only after a rename installed a download, the sources are tried
\* in the order of JAR_URLS, each only after the one before failed, and
\* resolveJarPath succeeds whenever some source delivers a valid file.
C8_RecoveryWithFallback ==
    /\ (hist.cacheReads = 1 /\ ~hist.startValid /\ CURRENT_JAR_PATH # NoPath) =>
            hist.installed /\ hist.renames >= 1
    /\ (pc \in {"fetch", "stream"} /\ hist.renames = 0) => ~cacheFile.exists
    /\ \A k \in 1..Len(hist.attempts) :
            /\ hist.attempts[k] = k
            /\ k > 1 => SourceFailed(k - 1)
    /\ (ResolveOver /\ ~hist.startValid /\ \E j \in 1..Len(JAR_URLS) : SourceDelivers(j)) =>
            (CURRENT_JAR_PATH = CACHED_JAR /\ err # ProvisioningFailed)

\* C8 witness: a corrupt cached file was unlinked, the first source broke off
\* mid-stream, the second delivered, and the call went on to return
C8_Witness ==
    /\ pc = "done" /\ hist.cacheReads = 1 /\ ~hist.startValid
    /\ hist.unlinks >= 1
    /\ net[1].kind = "midstream"
    /\ hist.attempts = <<1, 2>>
    /\ CURRENT_JAR_PATH = CACHED_JAR

\* C9: a path is returned only with a file at the cache path that has the
\* signature; when every source was tried and none gave such a file,
\* resolveJarPath throws, validate rejects with that error, and no engine
\* was spawned.
C9_OnlyCheckedJarReturned ==
    /\ CURRENT_JAR_PATH # NoPath => HasSignature(cacheFile)
    /\ (ResolveOver /\ CURRENT_JAR_PATH = NoPath) =>
            /\ pc = "rejected" /\ err = ProvisioningFailed
            /\ Len(hist.attempts) = Len(JAR_URLS)
    /\ err = ProvisioningFailed =>
            /\ pc = "rejected"
            /\ \A j \in 1..Len(JAR_URLS) : ~SourceDelivers(j)
            /\ hist.spawns = 0 /\ results = <<>> /\ files = <<>>

\* C9 witness: the first source delivered a file without the signature, it
\* was installed and checked, and provisioning failed in the end
C9_Witness ==
    /\ err = ProvisioningFailed
    /\ net[1].kind = "ok" /\ net[1].body = <<80, 60>>
    /\ hist.renames >= 1

\* C10: while hasJava is pending nothing of provisioning has happened in the
\* call; a call rejected with 'java not found' has read no cache, deleted and
\* downloaded nothing and spawned no engine; and java counts as available
\* exactly when the version query closed with code 0 or wrote to stderr.
C10_JavaCheckedFirst ==
    /\ pc = "hasJava" => (NoProvisioningStep /\ hist.spawns = 0)
    /\ err = JavaNotFound =>
            /\ pc = "rejected"
            /\ NoProvisioningStep /\ hist.spawns = 0 /\ results = <<>>
    /\ (calls > 0 /\ pc # "hasJava") =>
            ((err = JavaNotFound) <=> ~(java.closed /\ (java.code = 0 \/ java.sawOutput)))

\* C10 witness: java is missing, the cache holds a corrupt file and it is
\* still there after the call was rejected
C10_Witness ==
    /\ err = JavaNotFound /\ ~java.spawned
    /\ cacheFile.exists /\ ~HasSignature(cacheFile)
    /\ CURRENT_JAR_PATH = NoPath

(* ----------------------- properties of bad targets ---------------------- *)

\* the target of the running call is missing, or is one file whose name
\* does not end in .css in any letter case
MissingTarget == target.kind = "enoent"
NonCssTarget ==
    /\ target.kind = "file"
    /\ target.path[Len(target.path)] \notin {".css", ".CSS"}
CssFileTarget ==
    /\ target.kind = "file"
    /\ target.path[Len(target.path)] \in {".css", ".CSS"}

\* the absolute path of the target of the running call
TargetAbs ==
    IF target.path[1] = "/" THEN target.path ELSE <<"/", "cwd", "/">> \o target.path

\* a bad target never gets an engine invocation nor a summary, and a single
\* .css file is the whole file list
BadTargetIsFatal ==
    /\ (MissingTarget \/ NonCssTarget) =>
          /\ hist.spawns = 0 /\ results = <<>>
          /\ pc \notin {"loop", "running", "done"}
    /\ (CssFileTarget /\ pc \in {"loop", "running", "done"}) => files = <<TargetAbs>>
    /\ (CssFileTarget /\ pc = "rejected") => err \notin {PathNotFound, NotACssFile}

\* C11 as stated: a missing target or a single file that is not a .css file
\* makes validate reject with 'path not found' / 'not a css file', with no
\* summary and no engine invocation; a single .css file yields the
\* one-element list of its absolute path
C11_BadTargetRejectsWithItsError ==
    /\ BadTargetIsFatal
    /\ (MissingTarget /\ pc = "rejected") => err = PathNotFound
    /\ (NonCssTarget /\ pc = "rejected") => err = NotACssFile

\* C11 amended: the distinct error is the one validate rejects with when
\* java was found and the engine was provisioned, the two steps validate
\* takes before it looks at the target
C11_BadTargetRejectsOnceExpanded ==
    /\ BadTargetIsFatal
    /\ (MissingTarget /\ pc = "rejected" /\ err \notin {JavaNotFound, ProvisioningFailed})
          => err = PathNotFound
    /\ (NonCssTarget /\ pc = "rejected" /\ err \notin {JavaNotFound, ProvisioningFailed})
          => err = NotACssFile
    /\ ((MissingTarget \/ NonCssTarget) /\ pc = "rejected")
          => err \in {JavaNotFound, ProvisioningFailed, PathNotFound, NotACssFile}

C11_Witness ==
    /\ pc = "rejected" /\ NonCssTarget /\ err = NotACssFile
    /\ CURRENT_JAR_PATH = CACHED_JAR /\ hist.spawns = 0

(* --------------------------- runOne alone ------------------------------- *)
(* One call of runOne: the spawn, the events of the child in the orders the *)
(* runtime delivers them, and the promise runOne returned.                  *)

\* what one 'data' event carries
Chunks == {"{", "B", "}", "n"}

\* the exit code handed to the 'close' listener: a number, or null when a
\* signal ended the child
NullCode == [null |-> TRUE, n |-> 0]
Code(n) == [null |-> FALSE, n |-> n]
\* codes of a child that ran, and the negative errno of a failed spawn
RunCodes == {Code(0), Code(1), Code(2), NullCode}
FailCodes == {Code(-2)}

\* code || 0
CodeOrZero(c) == IF c.null \/ c.n = 0 THEN 0 ELSE c.n

\* the triple of the 'close' listener
OnClose(out, e, code) ==
    [stdout |-> out, stderr |-> e, code |-> CodeOrZero(code), doc |-> EmptyDoc]

OnErrorCodeZero(out, e) == [stdout |-> out, stderr |-> e, code |-> 0, doc |-> EmptyDoc]

\* the triple of the 'error' listener
OnError(out, e) == [stdout |-> out, stderr |-> e, code |-> 1, doc |-> EmptyDoc]

InitRunOne ==
    /\ pc = "runOne"
    /\ file = FileA
    /\ cfg \in RunConfigs
    /\ proc = NoProc /\ res = NoRes
    /\ calls = 0 /\ target = NoTarget /\ java = NoJava
    /\ CURRENT_JAR_PATH = CACHED_JAR /\ cacheFile = NoFile /\ partFile = NoFile
    /\ net = <<>> /\ jarI = 0 /\ sent = 0
    /\ files = <<>> /\ fileI = 0
    /\ results = <<>> /\ passed = 0 /\ failed = 0
    /\ err = "" /\ hist = NoHist
    /\ child = NoChild /\ exitCode = NoExit
    /\ prov = NoProv /\ processEnv = NoEnv

\* the names runOne assigns '' to after the copy
ClearedNames == {"http_proxy", "https_proxy", "no_proxy"}

\* env of runOne: every own variable of process.env copied, then the three
\* assignments env.http_proxy = '', env.https_proxy = '', env.no_proxy = ''
SpawnEnv(e) ==
    [k \in DOMAIN e \cup ClearedNames |-> IF k \in ClearedNames THEN Val("") ELSE e[k]]

\* child.spawn('java', args, { env: env }) and the four listeners
ChildSpawn(ok) ==
    /\ pc = "runOne"
    /\ child' = [NoChild EXCEPT !.state = IF ok THEN "running" ELSE "failed",
                                !.env = SpawnEnv(processEnv)]
    /\ pc' = "pending"
    /\ UNCHANGED <<prov, processEnv, exitCode, calls, cfg, target, java, CURRENT_JAR_PATH, cacheFile,
                   partFile, net, jarI, sent, files, fileI, file, proc, res, results,
                   passed, failed, err, hist>>

\* p.stdout.on('data')
ChildStdoutData(d) ==
    /\ child.state = "running" /\ ~child.closeSeen /\ Len(child.out) < MaxChunks
    /\ child' = [child EXCEPT !.out = Append(@, d)]
    /\ UNCHANGED <<prov, processEnv, exitCode, pc, calls, cfg, target, java, CURRENT_JAR_PATH, cacheFile,
                   partFile, net, jarI, sent, files, fileI, file, proc, res, results,
                   passed, failed, err, hist>>

\* p.stderr.on('data')
ChildStderrData(d) ==
    /\ child.state = "running" /\ ~child.closeSeen /\ Len(child.err) < MaxChunks
    /\ child' = [child EXCEPT !.err = Append(@, d)]
    /\ UNCHANGED <<prov, processEnv, exitCode, pc, calls, cfg, target, java, CURRENT_JAR_PATH, cacheFile,
                   partFile, net, jarI, sent, files, fileI, file, proc, res, results,
                   passed, failed, err, hist>>

\* resolve(v): the first call settles the promise, later calls do nothing
Resolve(v) ==
    IF pc = "pending" THEN pc' = "settled" /\ proc' = v
    ELSE UNCHANGED <<pc, proc>>

\* p.on('close'); after a failed spawn the runtime hands the errno
ChildClose(code) ==
    /\ child.state \in {"running", "failed"} /\ ~child.closeSeen
    /\ code \in IF child.state = "running" THEN RunCodes ELSE FailCodes
    /\ child' = [child EXCEPT !.closeSeen = TRUE]
    /\ Resolve(OnClose(child.out, child.err, code))
    /\ UNCHANGED <<prov, processEnv, exitCode, calls, cfg, target, java, CURRENT_JAR_PATH, cacheFile,
                   partFile, net, jarI, sent, files, fileI, file, res, results,
                   passed, failed, err, hist>>

\* p.on('error'): the spawn failed
ChildError ==
    /\ child.state = "failed" /\ ~child.errorSeen
    /\ child' = [child EXCEPT !.errorSeen = TRUE]
    /\ Resolve(OnError(child.out, child.err))
    /\ UNCHANGED <<prov, processEnv, exitCode, calls, cfg, target, java, CURRENT_JAR_PATH, cacheFile,
                   partFile, net, jarI, sent, files, fileI, file, res, results,
                   passed, failed, err, hist>>

NextRunOne ==
    \/ \E ok \in BOOLEAN : ChildSpawn(ok)
    \/ \E d \in Chunks : ChildStdoutData(d)
    \/ \E d \in Chunks : ChildStderrData(d)
    \/ \E code \in RunCodes \cup FailCodes : ChildClose(code)
    \/ ChildError

SpecRunOne == InitRunOne /\ [][NextRunOne]_vars

CliNetOutcomes ==
    { [kind |-> "neterr", body |-> <<>>],
      [kind |-> "midstream", body |-> <<80, 75>>],
      [kind |-> "ok", body |-> <<80, 75>>] }

ExitStatusAlwaysZero(summaryFailed) == 0

\* summary.failed > 0 ? 1 : 0
ExitStatus(summaryFailed) == IF summaryFailed > 0 THEN 1 ELSE 0

InitCli ==
    /\ pc = "idle"
    /\ calls = 0
    /\ cfg \in RunConfigs
    /\ target = NoTarget /\ java = NoJava
    /\ CURRENT_JAR_PATH = NoPath
    /\ cacheFile \in InitialCacheFiles
    /\ partFile = NoFile
    /\ net \in [1..Len(JAR_URLS) -> CliNetOutcomes]
    /\ jarI = 0 /\ sent = 0
    /\ files = <<>> /\ fileI = 0 /\ file = <<>>
    /\ proc = NoProc /\ res = NoRes
    /\ results = <<>> /\ passed = 0 /\ failed = 0
    /\ err = "" /\ hist = NoHist
    /\ child = NoChild /\ exitCode = NoExit
    /\ prov = NoProv /\ processEnv = NoEnv

\* if (!argv.target) { usage; process.exit(1) }
CliUsage ==
    /\ pc = "idle" /\ calls = 0 /\ exitCode = NoExit
    /\ exitCode' = 1
    /\ UNCHANGED <<prov, processEnv, child, pc, calls, cfg, target, java, CURRENT_JAR_PATH, cacheFile,
                   partFile, net, jarI, sent, files, fileI, file, proc, res, results,
                   passed, failed, err, hist>>

\* validate(argv.target, cfg), called once
CliValidate(t, spawned) ==
    /\ calls = 0 /\ exitCode = NoExit
    /\ Validate(t, spawned)

\* .then(function (summary) { ... process.exit(summary.failed > 0 ? 1 : 0) })
CliThen ==
    /\ pc = "done" /\ exitCode = NoExit
    /\ exitCode' = ExitStatus(failed)
    /\ UNCHANGED <<prov, processEnv, child, pc, calls, cfg, target, java, CURRENT_JAR_PATH, cacheFile,
                   partFile, net, jarI, sent, files, fileI, file, proc, res, results,
                   passed, failed, err, hist>>

\* .catch(function (err) { ... process.exit(1) })
CliCatch ==
    /\ pc = "rejected" /\ exitCode = NoExit
    /\ exitCode' = 1
    /\ UNCHANGED <<prov, processEnv, child, pc, calls, cfg, target, java, CURRENT_JAR_PATH, cacheFile,
                   partFile, net, jarI, sent, files, fileI, file, proc, res, results,
                   passed, failed, err, hist>>

NextCli ==
    \/ CliUsage
    \/ \E t \in Targets, spawned \in BOOLEAN : CliValidate(t, spawned)
    \/ JavaStderrData
    \/ JavaError
    \/ \E code \in {0, 1} : JavaClose(code)
    \/ ResolveCheck
    \/ ResolveClean
    \/ Fetch
    \/ StreamChunk
    \/ StreamError
    \/ StreamFinish
    \/ ResolveFail
    \/ ExpandFiles
    \/ RunOne
    \/ \E p \in RunProcs(file) : EngineClose(p)
    \/ Return
    \/ CliThen
    \/ CliCatch

SpecCli == InitCli /\ [][NextCli]_vars

\* the files of the results that did not pass
FailedResults == {i \in 1..Len(results) : ~results[i].ok}

\* C13: the process exits with 0 exactly when validate returned a summary
\* with no failed file; with 1 when a file failed, when validate rejected,
\* and when no target was given
C13_ExitZeroIffNoFailure ==
    exitCode # NoExit =>
        /\ exitCode \in {0, 1}
        /\ exitCode = 0 <=> (pc = "done" /\ failed = 0 /\ FailedResults = {})
        /\ (pc = "done" /\ FailedResults # {}) => exitCode = 1
        /\ pc = "rejected" => (exitCode = 1 /\ err # "")
        /\ pc = "idle" => (exitCode = 1 /\ target = NoTarget)
        /\ pc \in {"done", "rejected", "idle"}

C13_Witness ==
    /\ exitCode = 1 /\ pc = "done" /\ Len(results) = 2
    /\ results[1].ok /\ ~results[2].ok

(* ---------------------- properties of the summary ----------------------- *)

\* C14: results[i].file is the i-th path of the file list for every i: while
\* the loop runs the results are the results of the first files, in order,
\* and the summary validate returns has one result per file, none skipped
\* and none twice, whatever files passed or failed
C14_ResultsFollowFileList ==
    /\ pc \in {"loop", "running", "done"} =>
          /\ Len(results) <= Len(files)
          /\ \A i \in 1..Len(results) : results[i].file = files[i]
    /\ pc = "done" =>
          /\ Len(results) = Len(files)
          /\ \A i \in 1..Len(files) :
                Cardinality({j \in 1..Len(results) : results[j].file = files[i]}) = 1

C14_Witness ==
    /\ pc = "done" /\ Len(files) = 2 /\ Len(results) = 2
    /\ ~results[1].ok /\ results[2].ok
    /\ results[1].file = FileA /\ results[2].file = FileB

(* ------------------- properties of failed downloads --------------------- *)

\* the last download attempt of the running call broke off mid-stream
LastAttemptBrokeOff ==
    /\ hist.attempts # <<>>
    /\ net[hist.attempts[Len(hist.attempts)]].kind = "midstream"

\* C15: after a download attempt that failed mid-stream the '.part' file it
\* wrote is gone before the next source is attempted and when resolveJarPath
\* returns or throws; and a file a download installed at the cache path is
\* the whole body of a transfer that completed
C15_NoPartialFileLeft ==
    /\ (pc = "fetch" /\ LastAttemptBrokeOff) => ~partFile.exists
    /\ (ResolveOver /\ hist.fetches > 0) => ~partFile.exists
    /\ (hist.installed /\ cacheFile.exists) =>
          \E j \in 1..Len(hist.attempts) :
              /\ net[hist.attempts[j]].kind = "ok"
              /\ cacheFile.bytes = net[hist.attempts[j]].body

(* -------------------- the normalizer on edge inputs --------------------- *)
(* validateFileRaw applied to outputs that exercise one step each: the      *)
(* search for the document in the two channels.                             *)

TextTokens == {"{", "}", "B", "n"}

\* the document the body "B" stands for in these runs: one error of the file
OneErrorDoc ==
    [errors |-> <<[Item(<<"Parse", "Error">>, SelfUri, "", "") EXCEPT !.line = Num(<<"3">>)]>>,
     warnings |-> <<>>]

AllWarningsConfig ==
    [errorsOnly |-> FALSE, warningLevel |-> [has |-> TRUE, v |-> 2],
     showDeprecations |-> FALSE, tolerate |-> <<>>]

\* every pair of texts of at most MaxText tokens on stdout and stderr
ParseInputs ==
    { [file |-> FileA, cfg |-> AllWarningsConfig,
       proc |-> [stdout |-> o, stderr |-> e, code |-> 0, doc |-> OneErrorDoc]] :
        o \in SeqsUpTo(TextTokens, MaxText), e \in SeqsUpTo(TextTokens, MaxText) }

\* the path of the uri buildArgs hands to the engine: url.pathToFileURL(file)
\* escapes the characters that are not allowed in a uri
EncodePath(f) ==
    [k \in 1..Len(f) |-> CASE f[k] = " " -> "%20" [] f[k] = "#" -> "%23"
                            [] f[k] = "%20" -> "%2520" [] OTHER -> f[k]]

\* files whose name holds a blank, or the three characters %20
FileBlank   == <<"/", "a", " ", "b">>
FilePercent == <<"/", "a", "%20", "b">>

\* what the source field of an item about file f, or about another file, may
\* hold: nothing, a file uri in the forms file:/path, FILE:/path and
\* file:///path, or the plain path
AttrSources(f) ==
    { <<>>, <<"file:">> \o EncodePath(f), <<"FILE:">> \o EncodePath(f),
      <<"file:", "//">> \o EncodePath(f), f, OtherUri }

\* one error and one warning about file f, each with one of the sources
AttrInputsOf(f) ==
    { [file |-> f, cfg |-> AllWarningsConfig,
       proc |-> [stdout |-> <<"{", "B", "}">>, stderr |-> <<>>, code |-> 0,
                 doc |-> [errors |-> NumberedErrors(<<Item(<<"Parse", "Error">>, se, "", "")>>),
                          warnings |-> NumberedWarnings(
                                          <<Item(<<"vendor", "extension">>, sw, "", "")>>)]]] :
        se \in AttrSources(f), sw \in AttrSources(f) }

AttrInputs == UNION { AttrInputsOf(f) : f \in {FileA, FileBlank, FilePercent} }

\* what the engine may put in a line, col or column field: nothing, zero, a
\* positive or negative number, a fraction, a numeric string (signed or
\* not), a string that is no number, the empty string
RawScalars ==
    { Absent, Num(<<"0">>), Num(<<"5">>), Num(<<"-", "3">>), Num(<<"1", ".", "5">>),
      Str(<<"1", "2">>), Str(<<"-", "1">>), Str(<<"x">>), Str(<<>>) }

\* one error and one warning of the file with the same line, col and column
RawInputs ==
    { [file |-> FileA, cfg |-> AllWarningsConfig,
       proc |-> [stdout |-> <<"{", "B", "}">>, stderr |-> <<>>, code |-> 0,
                 doc |-> LET it == [Item(<<"Parse", "Error">>, SelfUri, "", "")
                                        EXCEPT !.line = l, !.col = c, !.column = cn]
                         IN  [errors |-> <<it>>, warnings |-> <<it>>]]] :
        l \in RawScalars, c \in RawScalars, cn \in RawScalars }

EdgeInputs == ParseInputs \cup AttrInputs \cup RawInputs

InitEdge ==
    /\ pc = "norm"
    /\ \E x \in EdgeInputs : file = x.file /\ cfg = x.cfg /\ proc = x.proc
    /\ res = NoRes
    /\ calls = 0 /\ target = NoTarget /\ java = NoJava
    /\ CURRENT_JAR_PATH = NoPath /\ cacheFile = NoFile /\ partFile = NoFile
    /\ net = <<>> /\ jarI = 0 /\ sent = 0
    /\ files = <<>> /\ fileI = 0
    /\ results = <<>> /\ passed = 0 /\ failed = 0
    /\ err = "" /\ hist = NoHist
    /\ child = NoChild /\ exitCode = NoExit
    /\ prov = NoProv /\ processEnv = NoEnv

SpecEdge == InitEdge /\ [][NextNorm]_vars

\* the text from the first { to the last } of t is an object: the empty one
\* or the one with the body
Decodes(t) ==
    \E i \in 1..Len(t), j \in 1..Len(t) :
        /\ i < j /\ t[i] = "{" /\ t[j] = "}"
        /\ \A k \in 1..(i - 1) : t[k] # "{"
        /\ \A k \in (j + 1)..Len(t) : t[k] # "}"
        /\ SubSeq(t, i + 1, j - 1) \in {<<>>, <<"B">>}

\* the object Decodes(t) speaks of
Decoded(t) ==
    IF \E i \in 1..(Len(t) - 1) :
          t[i] = "{" /\ t[i + 1] = "B" /\ \A k \in 1..(i - 1) : t[k] # "{"
    THEN proc.doc ELSE EmptyDoc

\* the text parseIssues is to take the document from
ChosenText ==
    IF Decodes(proc.stdout) THEN proc.stdout
    ELSE IF Decodes(proc.stderr) THEN proc.stderr
    ELSE proc.stdout \o proc.stderr

\* C16: parseIssues takes the object of stdout if stdout decodes, else that
\* of stderr, else that of stdout followed by stderr, and throws exactly
\* when none of the three decodes
C16_StdoutThenStderrThenBoth ==
    pc = "normDone" =>
        /\ res.threw <=> ~Decodes(ChosenText)
        /\ ~res.threw =>
              LET r == parseIssuesFromJson(Decoded(ChosenText), file, IncludeWarnings(cfg),
                                           cfg.showDeprecations, cfg)
              IN  res.errors = r.errors /\ res.warnings = r.warnings

\* stdout holds the empty object and stderr the document with the error
C16_Witness ==
    /\ pc = "normDone" /\ ~res.threw
    /\ Decodes(proc.stdout) /\ Decoded(proc.stdout) = EmptyDoc
    /\ Decodes(proc.stderr) /\ Decoded(proc.stderr) = OneErrorDoc
    /\ res.errors = <<>>

\* the run is one of those about the source field
AttrRun ==
    /\ pc = "normDone" /\ ~res.threw
    /\ [file |-> file, cfg |-> cfg, proc |-> proc] \in AttrInputs

\* C17: an error or warning is kept exactly when it has no source field or
\* its normalized source is the absolute path of the file
C17_KeptIffOwnSourceOrNone ==
    AttrRun =>
        /\ \A k \in 1..Len(proc.doc.errors) :
              LET it == proc.doc.errors[k]
              IN  ErrorInErrors(k) <=>
                     (it.source = <<>> \/ normalizeJarPath(it.source) = PathResolve(file))
        /\ \A k \in 1..Len(proc.doc.warnings) :
              LET it == proc.doc.warnings[k]
              IN  WarningInWarnings(k) <=>
                     (it.source = <<>> \/ normalizeJarPath(it.source) = PathResolve(file))

(* ------------------ properties of the diagnostic order ------------------ *)

\* where the engine emitted the item a diagnostic of these runs was made
\* from: the errors array (positions 1, 2, ...) comes first, then the
\* warnings array (positions 11, 12, ...)
EmissionRank(d) == IF d.line > 20 THEN 30 - d.line ELSE d.line

\* the item of the engine document a diagnostic was made from
EmittedItem(d) ==
    IF d.line > 20 THEN proc.doc.errors[30 - d.line] ELSE proc.doc.warnings[d.line - 10]

\* list is made of items of the document, in the order the engine emitted them
InEmissionOrder(list) ==
    /\ \A n \in 1..Len(list) : list[n] = Diagnostic(EmittedItem(list[n]))
    /\ \A n, m \in 1..Len(list) : n < m => EmissionRank(list[n]) < EmissionRank(list[m])

\* C18: the errors list is a subsequence of the engine's error array in its
\* order; the warnings list holds the downgraded errors and the engine
\* warnings in the order the engine emitted them, not ordered by line
C18_DiagnosticsInEmissionOrder ==
    NormReturned =>
        /\ InEmissionOrder(res.errors)
        /\ \A n \in 1..Len(res.errors) : res.errors[n].line > 20
        /\ InEmissionOrder(res.warnings)

\* two downgraded errors ahead of an engine warning: lines 29, 28, 11
C18_Witness ==
    /\ NormReturned /\ Len(res.warnings) = 3
    /\ res.warnings[1].line = 29 /\ res.warnings[2].line = 28 /\ res.warnings[3].line = 11

(* ----------------- properties of the engine invocations ----------------- *)

\* engines spawned by the running call that have not closed yet: every
\* closed engine left a result, or made the call reject for want of JSON
EnginesInFlight ==
    hist.spawns - Len(results) - (IF res.threw THEN 1 ELSE 0)

\* C19: at most one engine is in flight; while the engine of file i runs,
\* the engines of files 1..i-1 have closed and their results, and no
\* others, are in results
C19_OneEngineAtATime ==
    /\ EnginesInFlight \in {0, 1}
    /\ EnginesInFlight = 1 <=> pc = "running"
    /\ pc = "running" =>
          /\ hist.spawns = fileI /\ file = files[fileI]
          /\ Len(results) = fileI - 1
          /\ \A i \in 1..(fileI - 1) : results[i].file = files[i]

\* the engine of the second file runs after the first file failed
C19_Witness ==
    /\ pc = "running" /\ fileI = 2 /\ hist.spawns = 2
    /\ Len(results) = 1 /\ ~results[1].ok

\* the run is one of those about the line, col and column fields
RawRun ==
    /\ pc = "normDone" /\ ~res.threw
    /\ [file |-> file, cfg |-> cfg, proc |-> proc] \in RawInputs

\* the raw values that hold no number
Unparsable == {Absent, Str(<<"x">>), Str(<<>>)}

\* C20: every diagnostic has a line and a col that are non-negative integers,
\* whatever the engine put in line, col and column; a missing or unparsable
\* value gives 0 and the item is still reported
C20_LineAndColNonNegative ==
    /\ pc = "normDone" =>
          /\ \A n \in 1..Len(res.errors) :
                res.errors[n].line \in Nat /\ res.errors[n].col \in Nat
          /\ \A n \in 1..Len(res.warnings) :
                res.warnings[n].line \in Nat /\ res.warnings[n].col \in Nat
    /\ RawRun =>
          /\ Len(res.errors) = 1 /\ Len(res.warnings) = 1
          /\ proc.doc.errors[1].line \in Unparsable =>
                (res.errors[1].line = 0 /\ res.warnings[1].line = 0)
          /\ (proc.doc.errors[1].col \in Unparsable /\ proc.doc.errors[1].column \in Unparsable)
                => (res.errors[1].col = 0 /\ res.warnings[1].col = 0)

(* ------------------- the environment of the engine child ---------------- *)

\* the proxy-related names, in both spellings, and one name that is not
ProxyNames == {"http_proxy", "https_proxy", "no_proxy", "HTTP_PROXY", "HTTPS_PROXY", "NO_PROXY"}
EnvNames   == ProxyNames \cup {"PATH"}
EnvValues  == {"", "value"}

\* the environments the process can inherit: any subset of the names, each set
\* to the empty string or to a value
ParentEnvs == UNION { [S -> {Val(v) : v \in EnvValues}] : S \in SUBSET EnvNames }

\* process.env[k] as the child sees it
Lookup(e, k) == IF k \in DOMAIN e THEN e[k] ELSE Unset

InitEnv ==
    /\ pc = "runOne"
    /\ file = FileA
    /\ cfg \in RunConfigs
    /\ proc = NoProc /\ res = NoRes
    /\ calls = 0 /\ target = NoTarget /\ java = NoJava
    /\ CURRENT_JAR_PATH = CACHED_JAR /\ cacheFile = NoFile /\ partFile = NoFile
    /\ net = <<>> /\ jarI = 0 /\ sent = 0
    /\ files = <<>> /\ fileI = 0
    /\ results = <<>> /\ passed = 0 /\ failed = 0
    /\ err = "" /\ hist = NoHist
    /\ child = NoChild /\ exitCode = NoExit
    /\ prov = NoProv /\ processEnv \in ParentEnvs

NextEnv == \E ok \in BOOLEAN : ChildSpawn(ok)

SpecEnv == InitEnv /\ [][NextEnv]_vars

Spawned == child.state # "none"

\* C21: once the engine child is spawned, no proxy-related variable of its
\* environment, in lower- or upper-case spelling, is set to a non-empty value,
\* and every other variable the process inherited is handed over with the very
\* value it had.
C21_NoProxyAndRestUnchanged ==
    Spawned =>
        /\ \A k \in ProxyNames : Lookup(child.env, k).v = ""
        /\ \A k \in EnvNames \ ProxyNames : Lookup(child.env, k) = Lookup(processEnv, k)

\* the half the code keeps: the lower-case names are empty in the child and
\* everything outside the proxy names is handed over unchanged
C21_LowerCaseClearedRestUnchanged ==
    Spawned =>
        /\ \A k \in ClearedNames : Lookup(child.env, k) = Val("")
        /\ \A k \in EnvNames \ ProxyNames : Lookup(child.env, k) = Lookup(processEnv, k)

C21_Witness ==
    /\ Spawned
    /\ Lookup(processEnv, "HTTP_PROXY") = Val("value")
    /\ Lookup(processEnv, "http_proxy") = Val("value")
    /\ Lookup(processEnv, "PATH") = Val("value")

(* ------------------- provisioning with a failing disk ------------------- *)

\* a url whose answer is complete while the write stream on the '.part' file
\* emits 'error' (disk full, file not writable)
WriteErrorOutcome == [kind |-> "writeerr", body |-> <<80, 75>>]

ProvOutcomes == NetOutcomes \cup {WriteErrorOutcome}

\* validate stands at CURRENT_JAR_PATH = await resolveJarPath()
InitProv ==
    /\ pc = "resolve"
    /\ calls = 1
    /\ cfg \in RunConfigs
    /\ target = NoTarget
    /\ java = [spawned |-> TRUE, sawOutput |-> FALSE, closed |-> TRUE, code |-> 0]
    /\ CURRENT_JAR_PATH = NoPath
    /\ cacheFile \in InitialCacheFiles
    /\ partFile \in InitialPartFiles
    /\ net \in [1..Len(JAR_URLS) -> ProvOutcomes]
    /\ jarI = 0 /\ sent = 0
    /\ files = <<>> /\ fileI = 0 /\ file = <<>>
    /\ proc = NoProc /\ res = NoRes
    /\ results = <<>> /\ passed = 0 /\ failed = 0
    /\ err = "" /\ hist = NoHist
    /\ child = NoChild /\ exitCode = NoExit
    /\ prov = NoProv /\ processEnv = NoEnv

\* 'error' on out, the stream of fs.createWriteStream(tmp): download listens
\* for 'error' on res.body and for 'finish' on out only, so nothing settles the
\* promise; the event has no listener and is thrown as an uncaught exception,
\* which ends the process unless the host catches it
StreamWriteError ==
    /\ pc = "stream" /\ net[jarI].kind = "writeerr"
    /\ pc' \in {"crashed", "hung"}
    /\ UNCHANGED <<prov, processEnv, child, exitCode, calls, cfg, target, java, CURRENT_JAR_PATH,
                   cacheFile, partFile, net, jarI, sent, files, fileI, file, proc, res,
                   results, passed, failed, err, hist>>

NextProv ==
    \/ ResolveCheck
    \/ ResolveClean
    \/ Fetch
    \/ StreamChunk
    \/ StreamError
    \/ StreamFinish
    \/ StreamWriteError
    \/ ResolveFail

\* the event loop delivers every pending event: an answer of fetch, a chunk of
\* the body, 'error' and 'finish'
SpecProv == InitProv /\ [][NextProv]_vars /\ WF_vars(NextProv)

ReturnedPath == pc = "expand" /\ CURRENT_JAR_PATH = CACHED_JAR
FailedProvisioning == pc = "rejected" /\ err = ProvisioningFailed

\* C22: whatever each source does (non-2xx, network error, body error
\* mid-stream, write error on the temporary file, invalid content, success),
\* resolveJarPath eventually returns a path or fails with the provisioning
\* error.
C22_ProvisioningTerminates == <>(ReturnedPath \/ FailedProvisioning)

\* what holds: resolveJarPath returns or fails unless a write error on the
\* temporary file left the download without an end
C22_TerminatesOrWriteError ==
    <>(ReturnedPath \/ FailedProvisioning \/ pc \in {"crashed", "hung"})

\* without a write error every run of resolveJarPath ends
C22_NoWriteErrorTerminates ==
    (\A i \in 1..Len(JAR_URLS) : net[i].kind # "writeerr")
        => <>(ReturnedPath \/ FailedProvisioning)

(* ------------------- two validate calls that overlap -------------------- *)

\* what a url may answer while two calls provision
RaceOutcomes ==
    { [kind |-> "neterr",    body |-> <<>>],
      [kind |-> "midstream", body |-> <<80, 75>>],
      [kind |-> "ok",        body |-> <<80, 75, 7>>],
      [kind |-> "ok",        body |-> <<80, 60>>] }

\* fs.write at the offset of the stream: a gap left by a truncation of the
\* file reads as zero bytes
WriteAt(bytes, k, b) ==
    [j \in 1..(IF Len(bytes) > k THEN Len(bytes) ELSE k + 1) |->
        IF j = k + 1 THEN b
        ELSE IF j <= Len(bytes) THEN bytes[j] ELSE 0]

\* fs.unlinkSync(CACHED_JAR): a stream still open on that file writes to a
\* file no path leads to
AfterUnlink(pr) ==
    [q \in Provs |-> IF pr[q].fd = "cache" THEN [pr[q] EXCEPT !.fd = "gone"] ELSE pr[q]]

\* fs.renameSync(tmp, dest): the file moves, the streams open on it follow it
AfterRename(pr) ==
    [q \in Provs |->
        IF pr[q].fd = "cache" THEN [pr[q] EXCEPT !.fd = "gone"]
        ELSE IF pr[q].fd = "part" THEN [pr[q] EXCEPT !.fd = "cache"]
        ELSE pr[q]]

\* both calls of validate have been made and wait for hasJava
InitRace ==
    /\ prov = [p \in Provs |-> [NoCall EXCEPT !.pc = "hasJava"]]
    /\ CURRENT_JAR_PATH = NoPath
    /\ cacheFile \in InitialCacheFiles
    /\ partFile \in InitialPartFiles
    /\ net \in [1..Len(JAR_URLS) -> RaceOutcomes]
    /\ pc = "idle" /\ calls = Cardinality(Provs)
    /\ cfg \in RunConfigs
    /\ target = NoTarget /\ java = NoJava
    /\ jarI = 0 /\ sent = 0
    /\ files = <<>> /\ fileI = 0 /\ file = <<>>
    /\ proc = NoProc /\ res = NoRes
    /\ results = <<>> /\ passed = 0 /\ failed = 0
    /\ err = "" /\ hist = NoHist
    /\ child = NoChild /\ exitCode = NoExit
    /\ processEnv = NoEnv

\* hasJava resolved true: the memo test of validate and, when the memo is
\* empty, resolveJarPath up to its first await
RaceMemo(p) ==
    /\ prov[p].pc = "hasJava"
    /\ IF ~NeedsResolve(CURRENT_JAR_PATH)
       THEN prov' = [prov EXCEPT ![p] = [@ EXCEPT !.pc = "expand", !.ret = CURRENT_JAR_PATH]]
       ELSE IF cacheFile.exists
       THEN prov' = [prov EXCEPT ![p] = [@ EXCEPT !.pc = "check", !.ran = TRUE]]
       ELSE prov' = [prov EXCEPT ![p] = [@ EXCEPT !.pc = "fetch", !.ran = TRUE, !.i = 1]]
    /\ UNCHANGED <<processEnv, child, exitCode, pc, calls, cfg, target, java, CURRENT_JAR_PATH,
                   cacheFile, partFile, net, jarI, sent, files, fileI, file, proc, res,
                   results, passed, failed, err, hist>>

\* await isJar(CACHED_JAR) of the cache test answers
RaceCheck(p) ==
    /\ prov[p].pc = "check"
    /\ IF isJar(cacheFile)
       THEN /\ prov' = [prov EXCEPT ![p] = [@ EXCEPT !.pc = "expand", !.ret = CACHED_JAR]]
            /\ CURRENT_JAR_PATH' = CACHED_JAR
            /\ UNCHANGED cacheFile
       ELSE /\ prov' = [AfterUnlink(prov) EXCEPT ![p] = [@ EXCEPT !.pc = "fetch", !.i = 1]]
            /\ cacheFile' = NoFile
            /\ UNCHANGED CURRENT_JAR_PATH
    /\ UNCHANGED <<processEnv, child, exitCode, pc, calls, cfg, target, java, partFile, net,
                   jarI, sent, files, fileI, file, proc, res, results, passed, failed,
                   err, hist>>

\* fetch answers: an error lands in the catch of the loop, a 2xx answer opens
\* the write stream on the '.part' path
RaceFetch(p) ==
    /\ prov[p].pc = "fetch" /\ prov[p].i <= Len(JAR_URLS)
    /\ IF net[prov[p].i].kind \in {"neterr", "non2xx"}
       THEN /\ prov' = [AfterUnlink(prov) EXCEPT ![p] = [@ EXCEPT !.i = @ + 1]]
            /\ cacheFile' = NoFile
            /\ UNCHANGED partFile
       ELSE /\ prov' = [prov EXCEPT ![p] = [@ EXCEPT !.pc = "stream", !.sent = 0,
                                                      !.fd = "part"]]
            /\ partFile' = [exists |-> TRUE, bytes |-> <<>>]
            /\ UNCHANGED cacheFile
    /\ UNCHANGED <<processEnv, child, exitCode, pc, calls, cfg, target, java, CURRENT_JAR_PATH,
                   net, jarI, sent, files, fileI, file, proc, res, results, passed, failed,
                   err, hist>>

\* res.body.pipe(out): one more byte is written through the stream of p
RaceChunk(p) ==
    /\ prov[p].pc = "stream" /\ prov[p].sent < Len(net[prov[p].i].body)
    /\ prov' = [prov EXCEPT ![p] = [@ EXCEPT !.sent = @ + 1]]
    /\ partFile' = IF prov[p].fd = "part"
                   THEN [partFile EXCEPT !.bytes = WriteAt(@, prov[p].sent,
                                                       net[prov[p].i].body[prov[p].sent + 1])]
                   ELSE partFile
    /\ cacheFile' = IF prov[p].fd = "cache"
                    THEN [cacheFile EXCEPT !.bytes = WriteAt(@, prov[p].sent,
                                                        net[prov[p].i].body[prov[p].sent + 1])]
                    ELSE cacheFile
    /\ UNCHANGED <<processEnv, child, exitCode, pc, calls, cfg, target, java, CURRENT_JAR_PATH,
                   net, jarI, sent, files, fileI, file, proc, res, results, passed, failed,
                   err, hist>>

\* res.body.on('error', reject), then the catch of the loop
RaceStreamError(p) ==
    /\ prov[p].pc = "stream" /\ net[prov[p].i].kind = "midstream"
    /\ prov' = [AfterUnlink([prov EXCEPT ![p] = [@ EXCEPT !.fd = "none"]])
                   EXCEPT ![p] = [@ EXCEPT !.pc = "fetch", !.i = @ + 1]]
    /\ cacheFile' = NoFile
    /\ UNCHANGED <<processEnv, child, exitCode, pc, calls, cfg, target, java, CURRENT_JAR_PATH,
                   partFile, net, jarI, sent, files, fileI, file, proc, res, results, passed,
                   failed, err, hist>>

\* out.on('finish', resolve), then fs.renameSync(tmp, dest), which throws into
\* the catch of the loop when the '.part' path is gone
RaceFinish(p) ==
    /\ prov[p].pc = "stream" /\ net[prov[p].i].kind = "ok"
    /\ prov[p].sent = Len(net[prov[p].i].body)
    /\ IF partFile.exists
       THEN /\ prov' = [AfterRename([prov EXCEPT ![p] = [@ EXCEPT !.fd = "none"]])
                           EXCEPT ![p] = [@ EXCEPT !.pc = "verify"]]
            /\ cacheFile' = partFile
            /\ partFile' = NoFile
       ELSE /\ prov' = [AfterUnlink([prov EXCEPT ![p] = [@ EXCEPT !.fd = "none"]])
                           EXCEPT ![p] = [@ EXCEPT !.pc = "fetch", !.i = @ + 1]]
            /\ cacheFile' = NoFile
            /\ UNCHANGED partFile
    /\ UNCHANGED <<processEnv, child, exitCode, pc, calls, cfg, target, java, CURRENT_JAR_PATH,
                   net, jarI, sent, files, fileI, file, proc, res, results, passed, failed,
                   err, hist>>

\* await isJar(CACHED_JAR) after the rename answers
RaceVerify(p) ==
    /\ prov[p].pc = "verify"
    /\ IF isJar(cacheFile)
       THEN /\ prov' = [prov EXCEPT ![p] = [@ EXCEPT !.pc = "expand", !.ret = CACHED_JAR]]
            /\ CURRENT_JAR_PATH' = CACHED_JAR
       ELSE /\ prov' = [prov EXCEPT ![p] = [@ EXCEPT !.pc = "fetch", !.i = @ + 1]]
            /\ UNCHANGED CURRENT_JAR_PATH
    /\ UNCHANGED <<processEnv, child, exitCode, pc, calls, cfg, target, java, cacheFile,
                   partFile, net, jarI, sent, files, fileI, file, proc, res, results, passed,
                   failed, err, hist>>

\* the throw after the loop of resolveJarPath
RaceFail(p) ==
    /\ prov[p].pc = "fetch" /\ prov[p].i > Len(JAR_URLS)
    /\ prov' = [prov EXCEPT ![p] = [@ EXCEPT !.pc = "rejected"]]
    /\ UNCHANGED <<processEnv, child, exitCode, pc, calls, cfg, target, java, CURRENT_JAR_PATH,
                   cacheFile, partFile, net, jarI, sent, files, fileI, file, proc, res,
                   results, passed, failed, err, hist>>

NextRace ==
    \E p \in Provs :
        \/ RaceMemo(p)
        \/ RaceCheck(p)
        \/ RaceFetch(p)
        \/ RaceChunk(p)
        \/ RaceStreamError(p)
        \/ RaceFinish(p)
        \/ RaceVerify(p)
        \/ RaceFail(p)

SpecRace == InitRace /\ [][NextRace]_vars

\* the call is inside resolveJarPath
Resolving(p) == prov[p].pc \in {"check", "fetch", "stream", "verify"}

\* C23: of two validate calls started before either has finished, at most one
\* executes resolveJarPath, and never are two of them inside resolveJarPath at
\* the same time.
C23_ResolvedAtMostOnce ==
    /\ Cardinality({p \in Provs : prov[p].ran}) <= 1
    /\ Cardinality({p \in Provs : Resolving(p)}) <= 1

\* what the memo does give: a call that ends with a path ends with CACHED_JAR,
\* the path the memo holds
C23_SamePath ==
    \A p \in Provs : prov[p].pc = "expand" =>
        prov[p].ret = CACHED_JAR /\ CURRENT_JAR_PATH = CACHED_JAR

\* the file is a whole jar: the one found at the start or the complete body of
\* a source
FullyTransferred(f) ==
    /\ f.exists
    /\ \/ f.bytes = <<80, 75>>
       \/ \E i \in 1..Len(JAR_URLS) :
            net[i].kind = "ok" /\ isJar([exists |-> TRUE, bytes |-> net[i].body])
            /\ f.bytes = net[i].body

\* C24: with two provisioners on the same cache path and the same '.part'
\* path, a path one of them has returned designates a file that is present and
\* fully transferred, from the return on; and no stream is still open on the
\* installed file.
C24_ReturnedJarStays ==
    /\ \A p \in Provs : prov[p].ret = CACHED_JAR => FullyTransferred(cacheFile)
    /\ \A p \in Provs : prov[p].fd # "cache"

====
